---- MODULE Spec2Model ----
(***************************************************************************)
(* Model of FileSorter.py: extension keys, the category table and its      *)
(* mutation commands, collision-safe moves, target validation and the      *)
(* empty-folder cleanup pass.  Strings the code inspects character by      *)
(* character are modelled as sequences of one-character strings.           *)
(***************************************************************************)
EXTENDS Integers, Sequences, FiniteSets, TLC

VARIABLES
    fname,   \* file name handed to the extension-key computation
    fkey,    \* processed_ext_key computed for fname
    fdone,   \* whether the key has been computed
    tbl,     \* custom_category_mappings: sequence of <<name, extension set>>
             \* pairs in dict insertion order
    tbl0,    \* the table load_custom_category_settings produced at startup
    result,  \* outcome of the last settings command
    lastOp,  \* last settings command: "none", "add" or "remove"
    lastOld, \* existing_category_name_to_update of the last add (<<>> = None)
    lastNew, \* stripped category name of the last command
    lastExts,\* parsed extension set of the last add
    cfile,   \* file name classified last (<<>> = none yet)
    ccat,    \* category found for cfile (<<>> = None)
    existing,\* names present in the destination folder
    cname,   \* file name being placed
    cdest,   \* name chosen by the collision resolution
    cdone,   \* whether the destination has been resolved
    rtarget, \* target_dir of the organize run (a path: sequence of names)
    pc,      \* phase of the run: "idle", "aborted", "processing",
             \* "cleanup", "finished"
    dirs,    \* directories on disk
    loc,     \* path of every file (<<>> once the file is lost)
    present, \* files that exist before the first run
    unreadable, \* directories whose listing fails
    moveFail,\* files whose shutil.move fails (e.g. permission denied)
    rmFail,  \* directories whose os.rmdir fails (e.g. permission denied)
    todo,    \* files of files_to_process not yet processed
    scanned, \* files returned by get_files_in_folder
    scanErrs,\* directories for which the scan reported an error
    total,   \* total_files
    processed, \* processed_files_count
    used,    \* actual_created_category_folder_names
    prog,    \* progress bar value as <<numerator, denominator>>
    skipped, \* number of "-Skipping" events
    verrs,   \* number of validation errors reported
    failures,\* folder-creation and move failures of the current run
    prevFailures, \* failures of the previous run
    prevDone, \* the previous run finished on the root of this run
    selected,\* selected_folder_path_var
    moved,   \* successful moves of the current run
    dests,   \* destinations of the moves of the current run
    clobber, \* some move targeted an existing path
    cleanQ,  \* directories the cleanup walk has still to visit
    dirs0,   \* directories when the cleanup pass started
    run,     \* number of organize runs started
    locStart,\* file paths when the current run started
    dirsStart, \* directories when the current run started
    msrc,    \* source path handed to move_file_to_folder_gui
    mfiles,  \* files on disk around the direct move calls
    mres     \* results of the direct move calls

keyVars == <<fname, fkey, fdone>>
tableVars == <<tbl, tbl0, result, lastOp, lastOld, lastNew, lastExts, cfile, ccat>>
collVars == <<existing, cname, cdest, cdone>>
runVars == <<rtarget, pc, dirs, loc, present, unreadable, moveFail, rmFail, todo,
             scanned, scanErrs, total, processed, used, prog, skipped, verrs,
             failures, prevFailures, prevDone, selected, moved, dests, clobber,
             cleanQ, dirs0, run, locStart, dirsStart>>
moveVars == <<msrc, mfiles, mres>>
vars == <<keyVars, tableVars, collVars, runVars, moveVars>>

----------------------------------------------------------------------------
(* Character and string helpers (Python str methods)                        *)

LowerAlpha == <<"a","b","c","d","e","f","g","h","i","j","k","l","m",
                "n","o","p","q","r","s","t","u","v","w","x","y","z">>
UpperAlpha == <<"A","B","C","D","E","F","G","H","I","J","K","L","M",
                "N","O","P","Q","R","S","T","U","V","W","X","Y","Z">>

LowerTable == [c \in {UpperAlpha[i] : i \in 1..26} |->
                  LowerAlpha[CHOOSE i \in 1..26 : UpperAlpha[i] = c]]

UpperTable == [c \in {LowerAlpha[i] : i \in 1..26} |->
                  UpperAlpha[CHOOSE i \in 1..26 : LowerAlpha[i] = c]]

LowerChar(c) == IF c \in DOMAIN LowerTable THEN LowerTable[c] ELSE c

UpperChar(c) == IF c \in DOMAIN UpperTable THEN UpperTable[c] ELSE c

Lower(s) == [i \in 1..Len(s) |-> LowerChar(s[i])]

Upper(s) == [i \in 1..Len(s) |-> UpperChar(s[i])]

\* str.rfind(c) + 1 (0 when c does not occur)
RFind(s, c) ==
    IF \E i \in 1..Len(s) : s[i] = c
    THEN CHOOSE i \in 1..Len(s) : s[i] = c /\ \A j \in i+1..Len(s) : s[j] # c
    ELSE 0

EndsWith(s, t) ==
    Len(s) >= Len(t) /\ SubSeq(s, Len(s) - Len(t) + 1, Len(s)) = t

StartsWith(s, t) ==
    Len(s) >= Len(t) /\ SubSeq(s, 1, Len(t)) = t

\* splitext that treats every last dot as the start of the extension
SplitExtNoLeadingDot(p) ==
    LET sepI == RFind(p, "/")
        dotI == RFind(p, ".")
    IN IF dotI > sepI
       THEN <<SubSeq(p, 1, dotI - 1), SubSeq(p, dotI, Len(p))>>
       ELSE <<p, <<>>>>

\* os.path.splitext (posixpath / genericpath._splitext): the extension
\* starts at the last dot after the last separator, unless every character
\* before that dot in the base name is a dot (leading dots are not an ext).
SplitExt(p) ==
    LET sepI == RFind(p, "/")
        dotI == RFind(p, ".")
    IN IF dotI > sepI /\ \E j \in sepI+1..dotI-1 : p[j] # "."
       THEN <<SubSeq(p, 1, dotI - 1), SubSeq(p, dotI, Len(p))>>
       ELSE <<p, <<>>>>

\* NO_EXTENSION_KEYWORD = "no_extension"
NO_EXTENSION_KEYWORD == <<"n","o","_","e","x","t","e","n","s","i","o","n">>

\* get_file_extension: lower-cased extension including its dot
GetFileExtension(name) == Lower(SplitExt(name)[2])

\* processed_ext_key of start_organization_command, lines 570-584
ProcessedExtKey(name) ==
    LET ext == GetFileExtension(name)
        k1  == IF ext = <<>> \/ (ext = <<".">> /\ ~EndsWith(name, <<".", ".">>))
               THEN NO_EXTENSION_KEYWORD
               ELSE Lower(Tail(ext))
    IN IF k1 = <<>> THEN NO_EXTENSION_KEYWORD ELSE k1

----------------------------------------------------------------------------
(* The directory tree of the organize runs.  A path is the sequence of the  *)
(* names from "/" down; names are sequences of characters.                  *)

H      == <<"h">>
ETC    == <<"e","t","c">>
OLD    == <<"o","l","d">>
SUB    == <<"s">>
CONFIG == <<".","c","o","n","f","i","g">>
CX     == <<"x">>
Q      == <<"q">>
IMAGES == <<"I","M","A","G","E","S">>
DOCS   == <<"D","O","C","S">>

AJPG  == <<"a",".","j","p","g">>
BTXT  == <<"b",".","t","x","t">>
CNAME == <<"c">>
XGIF  == <<"x",".","g","i","f">>
DJPG  == <<"d",".","j","p","g">>
YTXT  == <<"y",".","t","x","t">>
ZJPG  == <<".","z",".","j","p","g">>
A1JPG == <<"a","_","1",".","j","p","g">>
B1TXT == <<"b","_","1",".","t","x","t">>

PRoot  == <<>>
PH     == <<H>>
PEtc   == <<ETC>>
POld   == <<H, OLD>>
PSub   == <<H, OLD, SUB>>
PConf  == <<H, CONFIG>>
PConfX == <<H, CONFIG, CX>>
PImg   == <<H, IMAGES>>
PQ     == <<Q>>

OrigIds == 1..9

\* files a failed shutil.move leaves behind: copy2 made the copy at the
\* destination and the unlink of the source failed
CopyIds == {10, 11}

FileIds == OrigIds \cup CopyIds

\* where each file starts: /h/a.jpg, /h/old/a.jpg, /h/b.txt, /h/c,
\* /h/x.gif, /h/IMAGES (a file), /h/.config/d.jpg, /etc/y.txt, /h/.z.jpg;
\* copies do not exist yet
InitialLoc ==
    << PH \o <<AJPG>>, POld \o <<AJPG>>, PH \o <<BTXT>>, PH \o <<CNAME>>,
       PH \o <<XGIF>>, PH \o <<IMAGES>>, PConf \o <<DJPG>>, PEtc \o <<YTXT>>,
       PH \o <<ZJPG>>, <<>>, <<>> >>

\* the initial value "No Folder Selected" of selected_folder_path_var (line
\* 119), which is not a directory
NoFolder ==
    << <<"N","o"," ","F","o","l","d","e","r"," ","S","e","l","e","c","t","e","d">> >>

RunIdle ==
    /\ rtarget = <<>> /\ pc = "idle" /\ dirs = {} /\ loc = InitialLoc
    /\ present = {} /\ unreadable = {} /\ moveFail = {} /\ rmFail = {} /\ todo = {}
    /\ scanned = {} /\ scanErrs = {} /\ total = 0 /\ processed = 0
    /\ used = {} /\ prog = <<0, 1>> /\ skipped = 0 /\ verrs = 0
    /\ failures = 0 /\ prevFailures = 0 /\ moved = 0 /\ dests = {}
    /\ clobber = FALSE /\ cleanQ = {} /\ dirs0 = {} /\ run = 0
    /\ locStart = InitialLoc /\ dirsStart = {}
    /\ prevDone = FALSE /\ selected = NoFolder

MoveIdle == msrc = <<>> /\ mfiles = {} /\ mres = <<>>

----------------------------------------------------------------------------
(* Extension-key specification: one file name, one key computation          *)

MaxNameLen == 4
NameAlpha == {"a", "A", "."}
KeyNames == UNION {[1..n -> NameAlpha] : n \in 1..MaxNameLen}

TableIdle ==
    /\ tbl = <<>> /\ tbl0 = <<>> /\ result = "none" /\ lastOp = "none"
    /\ lastOld = <<>> /\ lastNew = <<>> /\ lastExts = {} /\ cfile = <<>> /\ ccat = <<>>

CollIdle == existing = {} /\ cname = <<>> /\ cdest = <<>> /\ cdone = FALSE

KeyInit ==
    /\ fname \in KeyNames /\ fkey = <<>> /\ fdone = FALSE
    /\ TableIdle
    /\ CollIdle
    /\ RunIdle /\ MoveIdle

ComputeKey ==
    /\ ~fdone
    /\ fkey' = ProcessedExtKey(fname)
    /\ fdone' = TRUE
    /\ UNCHANGED fname
    /\ UNCHANGED tableVars
    /\ UNCHANGED collVars /\ UNCHANGED runVars /\ UNCHANGED moveVars

KeyNext == ComputeKey

KeySpec == KeyInit /\ [][KeyNext]_vars

AfterLastDot(f) == SubSeq(f, RFind(f, ".") + 1, Len(f))

\* the last dot is not the last character and some non-dot character
\* precedes it
ExtRule(f) ==
    /\ RFind(f, ".") > 0 /\ RFind(f, ".") < Len(f)
    /\ \E j \in 1..RFind(f, ".") - 1 : f[j] # "."

\* C1 (original): a name with a dot that is not its last character gets the
\* lower-cased text after its last dot as key; a name with no dot or a bare
\* trailing dot gets the sentinel; the key is never empty and is lower-case.
C1_Original ==
    LET dotNotLast == RFind(fname, ".") > 0 /\ RFind(fname, ".") < Len(fname)
    IN fdone =>
      /\ dotNotLast => fkey = Lower(AfterLastDot(fname))
      /\ ~dotNotLast => fkey = NO_EXTENSION_KEYWORD
      /\ fkey # <<>>
      /\ Lower(fkey) = fkey

\* C1 (amended): the key is the lower-cased text after the last dot when that
\* dot is not the last character and some non-dot character precedes it
\* (os.path.splitext does not treat leading dots as an extension); otherwise
\* it is the sentinel.  The key is never empty and is lower-case.
C1_KeyRule ==
    fdone =>
      /\ fkey = IF ExtRule(fname) THEN Lower(AfterLastDot(fname))
                ELSE NO_EXTENSION_KEYWORD
      /\ fkey # <<>>
      /\ Lower(fkey) = fkey

C1_Witness ==
    fdone /\ ExtRule(fname) /\ fname[1] = "." /\ fname[Len(fname)] = "A"

----------------------------------------------------------------------------
(* Category table and the settings commands                                 *)

\* str.strip() (whitespace is " " in this model)
Strip(s) ==
    IF \A i \in 1..Len(s) : s[i] = " " THEN <<>>
    ELSE LET a == CHOOSE i \in 1..Len(s) :
                    s[i] # " " /\ \A j \in 1..i-1 : s[j] = " "
             b == CHOOSE i \in 1..Len(s) :
                    s[i] # " " /\ \A j \in i+1..Len(s) : s[j] = " "
         IN SubSeq(s, a, b)

\* str.split(c)
RECURSIVE SplitOn(_, _)
SplitOn(s, c) ==
    IF \E i \in 1..Len(s) : s[i] = c
    THEN LET i == CHOOSE i \in 1..Len(s) :
                    s[i] = c /\ \A j \in 1..i-1 : s[j] # c
         IN <<SubSeq(s, 1, i - 1)>> \o SplitOn(SubSeq(s, i + 1, Len(s)), c)
    ELSE <<s>>

NO_EXTENSION_FILES ==
    <<"N","O","_","E","X","T","E","N","S","I","O","N","_","F","I","L","E","S">>

\* dict helpers over the insertion-ordered sequence of pairs
CatNames(t) == {t[i][1] : i \in 1..Len(t)}

CatExts(t, n) == t[CHOOSE i \in 1..Len(t) : t[i][1] = n][2]

DelCat(t, n) == SelectSeq(t, LAMBDA pr : pr[1] # n)

PutCat(t, n, e) ==
    IF n \in CatNames(t)
    THEN [i \in 1..Len(t) |-> IF t[i][1] = n THEN <<n, e>> ELSE t[i]]
    ELSE Append(t, <<n, e>>)

\* get_all_assigned_extensions_settings(exclude_category)
GetAllAssignedExtensions(t, excl) ==
    UNION {t[i][2] : i \in {j \in 1..Len(t) : ~(excl # <<>> /\ t[j][1] = excl)}}

\* exts_str: stripped, lower-cased extensions entry (line 387)
ExtsStr(raw) == Lower(Strip(raw))

\* current_exts_set (lines 410-411)
CurrentExtsSet(raw) ==
    LET parts == SplitOn(ExtsStr(raw), ",")
    IN {Strip(parts[i]) : i \in 1..Len(parts)} \ {<<>>, <<".">>}

\* the parsed extensions entry: exts_str, the stripped comma-separated
\* pieces (line 405) and current_exts_set (lines 410-411)
ParseExts(raw) ==
    LET parts == SplitOn(ExtsStr(raw), ",")
    IN [str  |-> ExtsStr(raw),
        toks |-> {Strip(parts[i]) : i \in 1..Len(parts)},
        cur  |-> CurrentExtsSet(raw)]

\* outcome without the unique-assignment check
AddOutcomeNoConflict(t, old, newName, pe) ==
    IF newName = <<>> THEN "EmptyName"
    ELSE IF pe.str = <<>> THEN "EmptyExtensions"
    ELSE IF Upper(newName) = NO_EXTENSION_FILES
            /\ pe.str # NO_EXTENSION_KEYWORD THEN "ReservedName"
    ELSE IF Upper(newName) # NO_EXTENSION_FILES
            /\ NO_EXTENSION_KEYWORD \in pe.toks THEN "ReservedName"
    ELSE IF pe.cur = {} THEN "EmptyExtensions"
    ELSE IF old = <<>> /\ newName \in CatNames(t) THEN "NameCollision"
    ELSE IF old # <<>> /\ newName # old /\ newName \in CatNames(t)
         THEN "NameCollision"
    ELSE "ok"

\* outcome of add_or_update_category_command_settings (lines 385-433) for
\* the stripped name newName and the parsed extensions entry pe
AddOutcome(t, old, newName, pe) ==
    LET excl == IF old # <<>> THEN old ELSE newName
    IN IF newName = <<>> THEN "EmptyName"
       ELSE IF pe.str = <<>> THEN "EmptyExtensions"
       ELSE IF Upper(newName) = NO_EXTENSION_FILES
               /\ pe.str # NO_EXTENSION_KEYWORD THEN "ReservedName"
       ELSE IF Upper(newName) # NO_EXTENSION_FILES
               /\ NO_EXTENSION_KEYWORD \in pe.toks THEN "ReservedName"
       ELSE IF pe.cur = {} THEN "EmptyExtensions"
       ELSE IF old = <<>> /\ newName \in CatNames(t) THEN "NameCollision"
       ELSE IF old # <<>> /\ newName # old /\ newName \in CatNames(t)
            THEN "NameCollision"
       ELSE IF pe.cur \cap GetAllAssignedExtensions(t, excl) # {}
            THEN "ExtensionConflict"
       ELSE "ok"

\* install that keeps the old entry when renaming
AddApplyKeepOld(t, old, newName, cur) == PutCat(t, newName, cur)

\* table after a successful add/update (lines 435-439)
AddApply(t, old, newName, cur) ==
    LET t1 == IF old # <<>> /\ old # newName /\ old \in CatNames(t)
              THEN DelCat(t, old) ELSE t
    IN PutCat(t1, newName, cur)

\* scan that never looks at the last entry of the table
ClassifyKeySkipLast(t, key) ==
    IF \E i \in 1..Len(t) - 1 : key \in t[i][2]
    THEN t[CHOOSE i \in 1..Len(t) - 1 :
             key \in t[i][2] /\ \A j \in 1..i-1 : key \notin t[j][2]][1]
    ELSE <<>>

\* first category (in dict order) whose set contains the key (lines 586-589)
ClassifyKey(t, key) ==
    IF \E i \in 1..Len(t) : key \in t[i][2]
    THEN t[CHOOSE i \in 1..Len(t) :
             key \in t[i][2] /\ \A j \in 1..i-1 : key \notin t[j][2]][1]
    ELSE <<>>

\* default tables of load_custom_category_settings: the fallback used after
\* a parse error (lines 75-78) and a loaded empty mapping
FallbackTable ==
    << << <<"I","M","A","G","E","S">>,
          {<<"j","p","g">>, <<"j","p","e","g">>, <<"p","n","g">>} >>,
       << <<"D","O","C","U","M","E","N","T","S">>,
          {<<"p","d","f">>, <<"t","x","t">>} >>,
       << NO_EXTENSION_FILES, {NO_EXTENSION_KEYWORD} >> >>

\* the table with no config file (lines 63-68)
DefaultTable ==
    << << <<"I","M","A","G","E","S">>,
          {<<"j","p","g">>, <<"j","p","e","g">>, <<"p","n","g">>, <<"g","i","f">>, <<"b","m","p">>, <<"w","e","b","p">>} >>,
       << <<"D","O","C","U","M","E","N","T","S">>,
          {<<"p","d","f">>, <<"d","o","c">>, <<"d","o","c","x">>, <<"t","x","t">>, <<"r","t","f">>, <<"o","d","t">>} >>,
       << <<"A","U","D","I","O">>, {<<"m","p","3">>, <<"w","a","v">>, <<"a","a","c">>} >>,
       << <<"V","I","D","E","O">>, {<<"m","p","4">>, <<"m","o","v">>, <<"a","v","i">>, <<"m","k","v">>} >>,
       << <<"A","R","C","H","I","V","E","S">>, {<<"z","i","p">>, <<"r","a","r">>, <<"7","z">>} >>,
       << NO_EXTENSION_FILES, {NO_EXTENSION_KEYWORD} >> >>

\* tables read as is from hand-written config files (lines 53-59):
\* {}, {"X": ["JPG", ".gif"]} and {"X": ["jpg"], "Y": ["jpg"]}
ConfigTables ==
    { <<>>,
      << << <<"X">>, {<<"J","P","G">>, <<".","g","i","f">>} >> >>,
      << << <<"X">>, {<<"j","p","g">>} >>, << <<"Y">>, {<<"j","p","g">>} >> >> }

\* startup tables of load_custom_category_settings (lines 49-76); a config
\* file holding a JSON value that is not an object raises AttributeError
\* and the program never starts
InitialTables == {DefaultTable, FallbackTable} \cup ConfigTables

\* raw text typed in the name entry
NameInputs ==
    { <<"I","M","A","G","E","S">>, <<" ","P","I","C">>, NO_EXTENSION_FILES,
      Lower(NO_EXTENSION_FILES), <<" ">> }

StoredNames == {Strip(n) : n \in NameInputs} \ {<<>>}

\* comma-separated pieces typed in the extensions entry
ExtPieces ==
    { <<"j","p","g">>, <<" ","J","P","G">>, <<".","g","i","f">>, <<".">>,
      NO_EXTENSION_KEYWORD }

MaxPieces == 2

RECURSIVE JoinComma(_)
JoinComma(ps) ==
    IF Len(ps) = 1 THEN ps[1] ELSE ps[1] \o <<",">> \o JoinComma(Tail(ps))

ExtInputs ==
    {JoinComma(ps) : ps \in UNION {[1..k -> ExtPieces] : k \in 1..MaxPieces}}

\* file names handed to classification
ClassifyFiles ==
    { <<"a",".","j","p","g">>, <<"b",".","J","P","G">>, <<"c",".","p","n","g">>,
      <<"d">>, <<"e",".">>, <<".","g","i","f">>, <<"f",".","g","i","f">> }

TableInit ==
    /\ tbl \in InitialTables /\ tbl0 = tbl
    /\ result = "none" /\ lastOp = "none" /\ lastOld = <<>>
    /\ lastNew = <<>> /\ lastExts = {} /\ cfile = <<>> /\ ccat = <<>>
    /\ fname = <<>> /\ fkey = <<>> /\ fdone = FALSE
    /\ CollIdle
    /\ RunIdle /\ MoveIdle

\* parse of every modelled extensions entry (evaluated once)
ParsedInputs == [r \in ExtInputs |-> ParseExts(r)]

\* no command or classification outcome is pending observation
Idle == lastOp = "none" /\ cfile = <<>>

\* add_or_update_category_command_settings(old) with the entries' texts;
\* lastOp/lastOld/lastNew/lastExts/result record this command
AddOrUpdateCategory(old, rawName, rawExts) ==
    LET pe  == ParsedInputs[rawExts]
        nm  == Strip(rawName)
        out == AddOutcome(tbl, old, nm, pe)
    IN /\ Idle
       /\ result' = out
       /\ lastOp' = "add"
       /\ lastOld' = old
       /\ lastNew' = nm
       /\ lastExts' = pe.cur
       /\ tbl' = IF out = "ok" THEN AddApply(tbl, old, nm, pe.cur) ELSE tbl
       /\ cfile' = <<>> /\ ccat' = <<>>
       /\ UNCHANGED tbl0 /\ UNCHANGED keyVars
       /\ UNCHANGED collVars /\ UNCHANGED runVars /\ UNCHANGED moveVars

\* remove_category_command_settings(name) (lines 503-516)
RemoveCategory(n) ==
    /\ Idle
    /\ tbl' = IF n \in CatNames(tbl) THEN DelCat(tbl, n) ELSE tbl
    /\ result' = "ok"
    /\ lastOp' = "remove"
    /\ lastOld' = <<>>
    /\ lastNew' = n
    /\ lastExts' = {}
    /\ cfile' = <<>> /\ ccat' = <<>>
    /\ UNCHANGED tbl0 /\ UNCHANGED keyVars
    /\ UNCHANGED collVars /\ UNCHANGED runVars /\ UNCHANGED moveVars

\* classification of one file in phase 2 (lines 570-589)
ClassifyFile(f) ==
    /\ Idle
    /\ cfile' = f
    /\ ccat' = ClassifyKey(tbl, ProcessedExtKey(f))
    /\ UNCHANGED <<tbl, tbl0, result, lastOp, lastOld, lastNew, lastExts>>
    /\ UNCHANGED keyVars
    /\ UNCHANGED collVars /\ UNCHANGED runVars /\ UNCHANGED moveVars

\* the recorded outcome has been observed (feedback shown, line 385 clears it
\* when the next command starts)
Acknowledge ==
    /\ ~Idle
    /\ result' = "none" /\ lastOp' = "none" /\ lastOld' = <<>>
    /\ lastNew' = <<>> /\ lastExts' = {} /\ cfile' = <<>> /\ ccat' = <<>>
    /\ UNCHANGED <<tbl, tbl0>>
    /\ UNCHANGED keyVars
    /\ UNCHANGED collVars /\ UNCHANGED runVars /\ UNCHANGED moveVars

TableNext ==
    \/ \E old \in {<<>>} \cup StoredNames, rn \in NameInputs, re \in ExtInputs :
          AddOrUpdateCategory(old, rn, re)
    \/ \E n \in StoredNames : RemoveCategory(n)
    \/ \E f \in ClassifyFiles : ClassifyFile(f)
    \/ Acknowledge

TableSpec == TableInit /\ [][TableNext]_vars

\* C2: on a table where every token is in at most one category, a classified
\* file gets the category whose extension set contains its key, or None when
\* no category contains it; at most one category does.
C2_Classify ==
    (cfile # <<>> /\ \A i, j \in 1..Len(tbl) : i # j => tbl[i][2] \cap tbl[j][2] = {}) =>
      LET k == ProcessedExtKey(cfile)
      IN /\ Cardinality({i \in 1..Len(tbl) : k \in tbl[i][2]}) <= 1
         /\ ccat # <<>> => ccat \in CatNames(tbl) /\ k \in CatExts(tbl, ccat)
         /\ ccat = <<>> => \A i \in 1..Len(tbl) : k \notin tbl[i][2]

C2_Witness == cfile # <<>> /\ ccat # <<>> /\ Len(tbl) >= 2
    /\ ccat = tbl[Len(tbl)][1]

\* C3: starting from a table where every token is in at most one category, a
\* category whose name is NO_EXTENSION_FILES up to case holds exactly the
\* sentinel and no other category holds the sentinel, the table keeps these
\* properties after any sequence of commands.
C3_TableInvariants ==
    LET Inv(t) ==
          /\ \A i, j \in 1..Len(t) : i # j => t[i][2] \cap t[j][2] = {}
          /\ \A i \in 1..Len(t) :
               Upper(t[i][1]) = NO_EXTENSION_FILES => t[i][2] = {NO_EXTENSION_KEYWORD}
          /\ \A i \in 1..Len(t) :
               Upper(t[i][1]) # NO_EXTENSION_FILES => NO_EXTENSION_KEYWORD \notin t[i][2]
    IN Inv(tbl0) => Inv(tbl)

C3_Witness ==
    /\ lastOp = "add" /\ result = "ok"
    /\ Upper(lastNew) = NO_EXTENSION_FILES /\ lastNew # NO_EXTENSION_FILES

\* C4: add_or_rename fails exactly when one of the listed conditions holds
\* (the claim's failure condition, for the table t before the command), and a
\* failing command leaves the table unchanged.
C4_AddFailure ==
    [][LET ClaimedAddFailure(t, old, nm, exts) ==
             LET entry == IF old # <<>> THEN old ELSE nm
             IN \/ nm = <<>>
                \/ exts = {}
                \/ nm \in CatNames(t) /\ nm # old
                \/ Upper(nm) = NO_EXTENSION_FILES /\ exts # {NO_EXTENSION_KEYWORD}
                \/ Upper(nm) # NO_EXTENSION_FILES /\ NO_EXTENSION_KEYWORD \in exts
                \/ \E i \in 1..Len(t) : t[i][1] # entry /\ exts \cap t[i][2] # {}
       IN lastOp' = "add" =>
            /\ (result' # "ok") <=> ClaimedAddFailure(tbl, lastOld', lastNew', lastExts')
            /\ result' # "ok" => tbl' = tbl]_vars

\* C5: a successful add_or_rename removes the old name (when renaming),
\* maps the new name to the parsed set and leaves all other entries alone;
\* remove deletes only its entry and is a no-op for an absent name.
C5_Frame ==
    [][/\ (lastOp' = "add" /\ result' = "ok") =>
          LET old == lastOld'
              nm == lastNew'
          IN /\ CatNames(tbl') =
                  (CatNames(tbl) \ (IF old # <<>> /\ old # nm THEN {old} ELSE {}))
                  \cup {nm}
             /\ CatExts(tbl', nm) = lastExts'
             /\ \A n \in CatNames(tbl) \ {old, nm} : CatExts(tbl', n) = CatExts(tbl, n)
       /\ lastOp' = "remove" =>
          /\ CatNames(tbl') = CatNames(tbl) \ {lastNew'}
          /\ \A n \in CatNames(tbl') : CatExts(tbl', n) = CatExts(tbl, n)
          /\ lastNew' \notin CatNames(tbl) => tbl' = tbl]_vars

C5_Witness ==
    lastOp = "add" /\ result = "ok" /\ lastOld # <<>> /\ lastOld # lastNew
    /\ lastOld \notin CatNames(tbl)

\* C6: when the startup table has only well-formed tokens, every token
\* stored after any sequence of commands is the sentinel or a non-empty
\* lower-case token without a leading dot.
C6_TokenShape ==
    LET Shape(t) ==
          \A i \in 1..Len(t) : \A e \in t[i][2] :
             e = NO_EXTENSION_KEYWORD \/ (e # <<>> /\ Lower(e) = e /\ e[1] # ".")
    IN Shape(tbl0) => Shape(tbl)

----------------------------------------------------------------------------
(* Collision resolution of move_file_to_folder_gui (lines 236-247)          *)

Digits == <<"0","1","2","3","4","5","6","7","8","9">>

\* decimal text of a positive integer (f"{count}")
RECURSIVE NumChars(_)
NumChars(n) ==
    IF n < 10 THEN <<Digits[n + 1]>>
    ELSE NumChars(n \div 10) \o <<Digits[(n % 10) + 1]>>

\* renamed file that loses its extension
ProbeNameNoExt(stem, ext, k) == stem \o <<"_">> \o NumChars(k)

\* f"{name_part}_{count}{ext_part}"
ProbeName(stem, ext, k) == stem \o <<"_">> \o NumChars(k) \o ext

\* the while loop probing name_1, name_2, ... from count k on
RECURSIVE ProbeFrom(_, _, _, _)
ProbeFrom(names, stem, ext, k) ==
    IF ProbeName(stem, ext, k) \in names
    THEN ProbeFrom(names, stem, ext, k + 1)
    ELSE ProbeName(stem, ext, k)

\* probing that starts at count 2
ResolveCollisionFrom2(names, name) ==
    IF name \notin names THEN name
    ELSE ProbeFrom(names, SplitExt(name)[1], SplitExt(name)[2], 2)

\* final file name chosen for name in a folder holding the names `names`
ResolveCollision(names, name) ==
    IF name \notin names THEN name
    ELSE ProbeFrom(names, SplitExt(name)[1], SplitExt(name)[2], 1)

MaxSuffix == 2

CollBases == { <<"a",".","t">>, <<"b">> }

\* names that can be present in the destination folder
CollPool ==
    CollBases \cup
    {ProbeName(SplitExt(b)[1], SplitExt(b)[2], k) : b \in CollBases, k \in 1..MaxSuffix}

CollInit ==
    /\ existing \in SUBSET CollPool
    /\ cname \in CollBases /\ cdest = <<>> /\ cdone = FALSE
    /\ fname = <<>> /\ fkey = <<>> /\ fdone = FALSE
    /\ TableIdle
    /\ RunIdle /\ MoveIdle

ResolveDestination ==
    /\ ~cdone
    /\ cdest' = ResolveCollision(existing, cname)
    /\ cdone' = TRUE
    /\ UNCHANGED <<existing, cname>>
    /\ UNCHANGED keyVars
    /\ UNCHANGED tableVars
    /\ UNCHANGED runVars /\ UNCHANGED moveVars

CollNext == ResolveDestination

CollSpec == CollInit /\ [][CollNext]_vars

\* C7: an absent name is kept; otherwise the result is stem_n + ext for the
\* smallest n >= 1 whose name is absent.
C7_Collision ==
    cdone =>
      LET st == SplitExt(cname)[1]
          ex == SplitExt(cname)[2]
      IN /\ cname \notin existing => cdest = cname
         /\ cname \in existing =>
              \E n \in 1..Cardinality(existing) + 1 :
                 /\ cdest = ProbeName(st, ex, n)
                 /\ cdest \notin existing
                 /\ \A m \in 1..n-1 : ProbeName(st, ex, m) \in existing

C7_Witness ==
    cdone /\ cname = <<"a",".","t">> /\ cdest = <<"a","_","2",".","t">>

----------------------------------------------------------------------------
(* Organize runs: start_organization_command and its helpers               *)

Parent(p) == SubSeq(p, 1, Len(p) - 1)

Basename(p) == p[Len(p)]

IsPrefix(a, p) == Len(a) <= Len(p) /\ SubSeq(p, 1, Len(a)) = a

\* is_system_or_hidden on Linux/macOS: the base name starts with a dot
IsSystemOrHidden(p) == Len(p) > 0 /\ Len(p[Len(p)]) > 0 /\ p[Len(p)][1] = "."

\* text of a normalized absolute path (os.path.join from "/")
RECURSIVE PathStrRec(_)
PathStrRec(p) == IF p = <<>> THEN <<>> ELSE <<"/">> \o p[1] \o PathStrRec(Tail(p))

PathStr(p) == IF p = <<>> THEN <<"/">> ELSE PathStrRec(p)

\* the Linux candidates of get_forbidden_paths (~ is /h)
ForbiddenCandidates ==
    { <<<<"b","o","o","t">>>>, PEtc, <<<<"l","i","b">>>>, <<<<"p","r","o","c">>>>,
      <<<<"s","y","s">>>>, <<<<"u","s","r">>>>, <<<<"v","a","r">>>>, PConf }

\* os.stat reaches path p: no directory strictly above p is unreadable
\* (an unreadable directory has no search permission either)
Reachable(p, unr) == \A k \in 0..Len(p)-1 : SubSeq(p, 1, k) \notin unr

\* os.path.isdir(t)
IsDir(t, ds, unr) == t \in ds /\ Reachable(t, unr)

\* get_forbidden_paths: the normalized candidates that exist (os.path.exists)
GetForbiddenPaths(ds, unr) ==
    {PathStr(c) : c \in {c2 \in ForbiddenCandidates : c2 \in ds /\ Reachable(c2, unr)}}

\* validation that only compares with the protected roots for equality
TargetInvalidEqualOnly(t, ds, unr) ==
    \/ ~IsDir(t, ds, unr)
    \/ \E fp \in GetForbiddenPaths(ds, unr) : PathStr(t) = fp

\* the validation of start_organization_command (lines 539-549): the
\* isdir test, then the loop over get_forbidden_paths()
TargetInvalid(t, ds, unr) ==
    \/ ~IsDir(t, ds, unr)
    \/ \E fp \in GetForbiddenPaths(ds, unr) :
           \/ PathStr(t) = fp
           \/ StartsWith(PathStr(t) \o <<"/">>, fp \o <<"/">>)

\* os.walk from t reaches directory d: t and every directory between them
\* can be listed (a failed listing is skipped silently, onerror=None)
Walkable(t, d, unr) ==
    IsPrefix(t, d) /\ \A k \in Len(t)..Len(d) : SubSeq(d, 1, k) \notin unr

\* get_files_in_folder keeps the file at path p (lines 176-190)
ScanVisible(t, p, unr) ==
    /\ IsPrefix(t, p) /\ Len(p) > Len(t)
    /\ ~IsSystemOrHidden(p)
    /\ Walkable(t, Parent(p), unr)
    /\ \A k \in Len(t)+1..Len(p)-1 : ~IsSystemOrHidden(SubSeq(p, 1, k))

GetFilesInFolder(t, ids, lc, unr) == {i \in ids : ScanVisible(t, lc[i], unr)}

\* the category table of the runs
RunTable ==
    << <<IMAGES, {<<"j","p","g">>}>>, <<DOCS, {<<"t","x","t">>}>>,
       <<NO_EXTENSION_FILES, {NO_EXTENSION_KEYWORD}>> >>

\* names files can have during the runs (a_1.jpg after a collision)
RunFileNames == {Basename(InitialLoc[i]) : i \in OrigIds} \cup {A1JPG, B1TXT}

\* category of every such name under RunTable (lines 570-589), computed once
CatTable == [n \in RunFileNames |-> ClassifyKey(RunTable, ProcessedExtKey(n))]

CategoryOf(n) ==
    IF n \in DOMAIN CatTable THEN CatTable[n]
    ELSE ClassifyKey(RunTable, ProcessedExtKey(n))

\* progress that lags one file behind
ProgressOfStale(n, t) == <<n - 1, t>>

\* progress_bar.set(n / t)
ProgressOf(n, t) == <<n, t>>

\* no-op test of move_file_to_folder_gui (lines 233-235)
IsInPlace(src, folder) ==
    Parent(src) = folder /\ src = folder \o <<Basename(src)>>

\* names present in a folder (files and directories)
NamesIn(folder, ds, lc, ids) ==
    {Basename(lc[j]) : j \in {j2 \in ids : lc[j2] # <<>> /\ Parent(lc[j2]) = folder}}
    \cup {Basename(d) : d \in {d2 \in ds : d2 # <<>> /\ Parent(d2) = folder}}

AlwaysPresent == {8}
\* files that may be present; a.jpg, b.txt and c come and go together, and
\* so do x.gif, the file /h/IMAGES, /h/.config/d.jpg and .z.jpg
OptionalFiles == {{1, 3, 4}, {2}, {5, 6, 7, 9}}
BaseDirs == {PRoot, PH, PEtc}
OptionalDirs == {POld, PSub, PConf, PConfX, PImg}
Targets == {PH, PRoot, PEtc, PConfX, PSub}

RunInit ==
    /\ \E opt \in SUBSET OptionalFiles, xd \in SUBSET OptionalDirs :
         /\ present = AlwaysPresent \cup UNION opt
         /\ dirs = BaseDirs \cup xd
         /\ \A d \in dirs : d = <<>> \/ Parent(d) \in dirs
         /\ \A i \in present : Parent(InitialLoc[i]) \in dirs
         /\ ~(6 \in present /\ PImg \in dirs)
         \* layouts: /h/old with at most one of /h/old/sub, /h/.config (with
         \* /h/.config/cx) and /h/IMAGES; x.gif, the file /h/IMAGES, d.jpg
         \* and .z.jpg only in layouts without /h/old
         /\ Cardinality(dirs \cap {PSub, PConf, PImg}) <= 1
         /\ ~(POld \in dirs /\ 7 \in present)
         /\ (PConf \in dirs <=> PConfX \in dirs)
    \* at most one kind of failure per layout: an unreadable /h/old holding
    \* a.jpg, a failing move of b.txt, or a failing rmdir of /h/old/sub
    /\ unreadable \in IF 2 \in present THEN SUBSET (dirs \cap {POld}) ELSE {{}}
    /\ moveFail \in IF 3 \in present /\ unreadable = {} THEN SUBSET {3} ELSE {{}}
    /\ rmFail \in IF unreadable = {} /\ moveFail = {}
                 THEN SUBSET (dirs \cap {PSub}) ELSE {{}}
    /\ rtarget = <<>> /\ pc = "idle" /\ loc = InitialLoc /\ todo = {}
    /\ scanned = {} /\ scanErrs = {} /\ total = 0 /\ processed = 0
    /\ used = {} /\ prog = <<0, 1>> /\ skipped = 0 /\ verrs = 0
    /\ failures = 0 /\ prevFailures = 0 /\ moved = 0 /\ dests = {}
    /\ clobber = FALSE /\ cleanQ = {} /\ dirs0 = {} /\ run = 0
    /\ locStart = InitialLoc /\ dirsStart = {}
    /\ prevDone = FALSE /\ selected = NoFolder
    /\ fname = <<>> /\ fkey = <<>> /\ fdone = FALSE
    /\ TableIdle /\ CollIdle /\ MoveIdle

OtherFrame ==
    UNCHANGED keyVars /\ UNCHANGED tableVars /\ UNCHANGED collVars
    /\ UNCHANGED moveVars

\* start_organization_command up to the end of phase 1 (lines 535-564)
StartRun(t) ==
    /\ rtarget' = t /\ run' = run + 1
    /\ locStart' = loc /\ dirsStart' = dirs /\ prevFailures' = failures
    /\ prevDone' = (pc = "finished" /\ rtarget = t)
    /\ used' = {} /\ moved' = 0 /\ dests' = {} /\ failures' = 0
    /\ skipped' = 0 /\ processed' = 0 /\ cleanQ' = {} /\ dirs0' = {}
    /\ IF TargetInvalid(t, dirs, unreadable)
       THEN /\ pc' = "aborted" /\ verrs' = verrs + 1
            /\ todo' = {} /\ scanned' = {} /\ total' = 0 /\ prog' = <<0, 1>>
            /\ UNCHANGED scanErrs
       ELSE LET sc == GetFilesInFolder(t, present, loc, unreadable)
            IN /\ scanned' = sc /\ todo' = sc /\ total' = Cardinality(sc)
               /\ scanErrs' = {}
               /\ verrs' = verrs
               /\ pc' = IF sc = {} THEN "finished" ELSE "processing"
               /\ prog' = IF sc = {} THEN <<1, 1>> ELSE <<0, 1>>
    /\ UNCHANGED <<dirs, loc, present, unreadable, moveFail, rmFail, clobber, selected>>
    /\ OtherFrame

\* number of organize runs explored
MaxRuns == 2

\* no run is in progress: the run blocks the Tk event loop, so the buttons
\* only act between runs
NotRunning == pc \in {"idle", "finished", "aborted"}

\* the "Start Organizing Files" button (start_organization_command), after
\* any earlier run, finished or aborted
StartOrganize ==
    /\ NotRunning /\ run < MaxRuns
    /\ StartRun(selected)

\* folders the dialog returns (askdirectory, line 523): any of the targets,
\* or none when it is cancelled
BrowseChoices == Targets \cup {NoFolder}

\* the "Select Main Folder" button (browse_folder_command, lines 521-532):
\* progress 0, then the dialog returns a folder or is cancelled (NoFolder)
Browse(t) ==
    /\ NotRunning
    /\ prog' = <<0, 1>>
    /\ selected' = IF t = NoFolder THEN selected ELSE t
    /\ UNCHANGED <<rtarget, pc, dirs, loc, present, unreadable, moveFail, rmFail, todo,
                   scanned, scanErrs, total, processed, used, skipped, verrs,
                   failures, prevFailures, prevDone, moved, dests, clobber,
                   cleanQ, dirs0, run, locStart, dirsStart>>
    /\ OtherFrame

\* one iteration of the phase-2 loop for file i (lines 569-623), including
\* create_folder_if_not_exists_gui and move_file_to_folder_gui; when the
\* move fails, cp tells whether shutil.move's copy2 fallback left a copy at
\* the destination (the unlink of the source failed) or not (the copy failed)
ProcessFile(i, cp) ==
    LET p       == loc[i]
        nm      == Basename(p)
        cat     == CategoryOf(nm)
        folder  == rtarget \o <<cat>>
        names   == NamesIn(folder, dirs, loc, present)
        dest    == folder \o <<ResolveCollision(names, nm)>>
        \* os.makedirs fails when a file occupies the folder's path
        blocked == \E j \in present : loc[j] = folder
        unclass == cat = <<>>
        inCat   == ~unclass /\ Parent(p) = folder
        attempt == ~unclass /\ ~inCat
        created == attempt /\ ~blocked
        \* shutil.move runs unless the file is in place; it may fail
        moves   == created /\ ~IsInPlace(p, folder) /\ i \notin moveFail
        mvFail  == created /\ ~IsInPlace(p, folder) /\ i \in moveFail
        fails   == (attempt /\ blocked) \/ mvFail
        copy    == mvFail /\ cp
        cid     == CHOOSE c \in CopyIds \ present : TRUE
    IN
    /\ pc = "processing" /\ i \in todo
    /\ todo' = todo \ {i}
    /\ processed' = processed + 1
    /\ prog' = ProgressOf(processed + 1, total)
    /\ skipped' = IF unclass THEN skipped + 1 ELSE skipped
    /\ used' = IF attempt THEN used \cup {cat} ELSE used
    /\ dirs' = IF created THEN dirs \cup {folder} ELSE dirs
    /\ failures' = IF fails THEN failures + 1 ELSE failures
    \* shutil.move renames; a file already at dest would be replaced
    /\ loc' = IF moves
              THEN [j \in FileIds |->
                      IF j = i THEN dest
                      ELSE IF j \in present /\ loc[j] = dest THEN <<>> ELSE loc[j]]
              ELSE IF copy THEN [loc EXCEPT ![cid] = dest]
              ELSE loc
    /\ present' = IF copy THEN present \cup {cid} ELSE present
    /\ moved' = IF moves THEN moved + 1 ELSE moved
    /\ dests' = IF moves THEN dests \cup {dest} ELSE dests
    /\ clobber' = (clobber \/ (moves /\ (dest \in dirs
                                         \/ \E j \in present : loc[j] = dest)))
    /\ UNCHANGED <<rtarget, pc, unreadable, moveFail, rmFail, scanned, scanErrs,
                   total, verrs, prevFailures, prevDone, selected, cleanQ, dirs0,
                   run, locStart, dirsStart>>
    /\ OtherFrame

\* end of phase 2: progress 1.0 and the os.walk(topdown=False) of
\* delete_empty_folders_recursively lists the directories it will visit
StartCleanup ==
    /\ pc = "processing" /\ todo = {}
    /\ pc' = "cleanup"
    /\ prog' = <<1, 1>>
    /\ dirs0' = dirs
    /\ cleanQ' = {d \in dirs : Walkable(rtarget, d, unreadable)}
    /\ UNCHANGED <<rtarget, dirs, loc, present, unreadable, moveFail, rmFail, todo,
                   scanned, scanErrs, total, processed, used, skipped, verrs,
                   failures, prevFailures, prevDone, selected, moved, dests, clobber, run,
                   locStart, dirsStart>>
    /\ OtherFrame

\* protection of the organize root only
IsProtectedDirRootOnly(d, t, u) == d = t

\* the protection test of delete_empty_folders_recursively (line 275)
IsProtectedDir(d, t, u) == d = t \/ d \in {t \o <<c>> : c \in u}

\* one directory yielded bottom-up: deleted when it is empty (lines 274-292)
\* os.walk(topdown=False) yields a directory after all its subdirectories
WalkReady(d) == ~\E c \in cleanQ : c # d /\ c # <<>> /\ Parent(c) = d

\* directories the walk has entered but not yet yielded: os.walk finishes
\* the subtree of one subdirectory before it enters the next (depth first)
WalkOpen ==
    {p \in cleanQ :
        \E e \in dirs0 \ cleanQ :
            Walkable(rtarget, e, unreadable) /\ IsPrefix(p, e) /\ e # p}

VisitDir(d) ==
    /\ pc = "cleanup" /\ d \in cleanQ
    /\ WalkReady(d)
    /\ \A p \in WalkOpen : IsPrefix(p, d)
    /\ cleanQ' = cleanQ \ {d}
    \* os.rmdir of an empty directory; when it fails (lines 284-286) the
    \* error is logged and the directory stays
    /\ dirs' = IF ~IsProtectedDir(d, rtarget, used)
                  /\ NamesIn(d, dirs, loc, present) = {}
                  /\ d \notin rmFail
               THEN dirs \ {d} ELSE dirs
    /\ UNCHANGED <<rtarget, pc, loc, present, unreadable, moveFail, rmFail, todo,
                   scanned, scanErrs, total, processed, used, prog, skipped,
                   verrs, failures, prevFailures, prevDone, selected, moved, dests, clobber, dirs0,
                   run, locStart, dirsStart>>
    /\ OtherFrame

\* the walk is exhausted; the finally block (lines 639-644)
FinishRun ==
    /\ pc = "cleanup" /\ cleanQ = {}
    /\ pc' = "finished"
    /\ prog' = IF total = processed THEN <<1, 1>> ELSE prog
    /\ UNCHANGED <<rtarget, dirs, loc, present, unreadable, moveFail, rmFail, todo,
                   scanned, scanErrs, total, processed, used, skipped, verrs,
                   failures, prevFailures, prevDone, selected, moved, dests, clobber, cleanQ, dirs0,
                   run, locStart, dirsStart>>
    /\ OtherFrame

\* the next file of the list (any scan order)
ProcessNext == \E i \in todo, cp \in BOOLEAN : ProcessFile(i, cp)

\* the next directory of the bottom-up walk, siblings in any listing order
\* (os.listdir order of the file system)
VisitNext == \E d \in cleanQ : VisitDir(d)

RunNext ==
    \/ \E t \in BrowseChoices : Browse(t)
    \/ StartOrganize
    \/ ProcessNext
    \/ StartCleanup
    \/ VisitNext
    \/ FinishRun

RunSpec == RunInit /\ [][RunNext]_vars

\* start_organization_command runs its loops to the end once started
\* (lines 569-644)
FairRunSpec ==
    /\ RunSpec
    /\ WF_vars(ProcessNext) /\ WF_vars(StartCleanup)
    /\ WF_vars(VisitNext) /\ WF_vars(FinishRun)

----------------------------------------------------------------------------
(* Direct calls of move_file_to_folder_gui(src, "/h", "IMAGES")            *)

MaxCalls == 2

MovePool ==
    { PImg \o <<AJPG>>, PImg \o <<A1JPG>>, PH \o <<AJPG>>, POld \o <<AJPG>>,
      PImg \o <<BTXT>>, PH \o <<BTXT>> }

\* move_file_to_folder_gui (lines 225-262) on the set of files fs; the
\* category folder exists (create_folder_if_not_exists_gui ran before).  The
\* finally block's return moved_successfully (line 262) replaces the return
\* True of the no-op branch (line 235), so an in-place call returns False.
MoveFileGui(src, t, cat, fs) ==
    LET folder == t \o <<cat>>
        names  == {Basename(f) : f \in {g \in fs : Parent(g) = folder}}
        dest   == folder \o <<ResolveCollision(names, Basename(src))>>
    IN IF IsInPlace(src, folder) THEN [ok |-> FALSE, files |-> fs]
       ELSE IF src \notin fs THEN [ok |-> FALSE, files |-> fs]
       ELSE [ok |-> TRUE, files |-> (fs \ {src}) \cup {dest}]

MoveInit ==
    /\ mfiles \in SUBSET MovePool /\ msrc \in mfiles /\ mres = <<>>
    /\ fname = <<>> /\ fkey = <<>> /\ fdone = FALSE
    /\ TableIdle /\ CollIdle /\ RunIdle

CallMove ==
    LET r == MoveFileGui(msrc, PH, IMAGES, mfiles)
    IN /\ Len(mres) < MaxCalls
       /\ mres' = Append(mres, r.ok)
       /\ mfiles' = r.files
       /\ UNCHANGED msrc
       /\ UNCHANGED keyVars /\ UNCHANGED tableVars /\ UNCHANGED collVars
       /\ UNCHANGED runVars

MoveNext == CallMove

MoveSpec == MoveInit /\ [][MoveNext]_vars

\* C8: a call on a file already in /h/IMAGES returns TRUE and changes
\* nothing, so repeated calls all return TRUE with no change.
C8_InPlaceIdempotent ==
    [][(/\ Len(mres') = Len(mres) + 1
         /\ Parent(msrc) = PImg /\ msrc = PImg \o <<Basename(msrc)>>) =>
          (mres'[Len(mres')] = TRUE /\ mfiles' = mfiles)]_vars

----------------------------------------------------------------------------
(* Properties of organize runs                                              *)

\* the protected roots that exist, as paths

\* directories strictly below d
Below(d, ds) == {e \in ds : IsPrefix(d, e) /\ e # d}

\* C9: the cleanup pass keeps the organize root and the category folders
\* used in the run; every other directory the walk reaches is deleted iff it
\* is empty when it is visited (no file below it and every subdirectory
\* already deleted) and its os.rmdir does not fail; directories the walk
\* cannot list and directories whose removal failed are kept, and the sweep
\* goes on and finishes.
C9_Cleanup ==
    (pc = "finished" /\ dirs0 # {}) =>
      LET W    == {d \in dirs0 : Walkable(rtarget, d, unreadable)}
          Prot == {rtarget} \cup {rtarget \o <<c>> : c \in used}
      IN /\ rtarget \in dirs
         /\ \A d \in dirs0 \cap Prot : d \in dirs
         /\ \A d \in dirs0 \ W : d \in dirs
         /\ \A d \in W \ Prot :
              (d \notin dirs) <=>
                 (/\ ~\E i \in present : loc[i] # <<>> /\ IsPrefix(d, loc[i])
                  /\ Below(d, dirs) = {}
                  /\ d \notin rmFail)

C9_Witness ==
    /\ pc = "finished" /\ rtarget = PH
    /\ rmFail = {PSub} /\ PSub \in dirs /\ POld \in dirs
    /\ 2 \notin present

ClaimedScan(t, lc, unr) ==
    {i \in present :
        /\ IsPrefix(t, lc[i]) /\ Len(lc[i]) > Len(t)
        /\ \A k \in Len(t)+1..Len(lc[i]) : ~IsSystemOrHidden(SubSeq(lc[i], 1, k))
        /\ \A k \in Len(t)..Len(lc[i])-1 : SubSeq(lc[i], 1, k) \notin unr}

\* C11: the scan returns exactly the visible files outside hidden
\* subdirectories and unreadable directories, and every unreadable
\* directory it reaches is reported.
C11_Scan ==
    (run >= 1 /\ pc \notin {"idle", "aborted"}) =>
      /\ scanned = ClaimedScan(rtarget, locStart, unreadable)
      /\ \A d \in unreadable :
           (/\ d \in dirsStart /\ IsPrefix(rtarget, d)
            /\ \A k \in Len(rtarget)+1..Len(d) : ~IsSystemOrHidden(SubSeq(d, 1, k))
            /\ \A k \in Len(rtarget)..Len(d)-1 : SubSeq(d, 1, k) \notin unreadable)
           => d \in scanErrs

\* C12: every scanned file is processed once; progress stays in [0,1],
\* never decreases within a run, equals processed/total after each file, and
\* a validated run always finishes with processed = total and progress 1.
C12_Progress ==
    /\ [](pc \in {"processing", "cleanup", "finished"} =>
            /\ 0 <= prog[1] /\ prog[1] <= prog[2]
            /\ todo \subseteq scanned
            /\ processed + Cardinality(todo) = total)
    /\ [][(pc = "processing" /\ pc' \in {"processing", "cleanup"}) =>
            prog'[1] * prog[2] >= prog[1] * prog'[2]]_vars
    /\ [][(pc = "processing" /\ processed' = processed + 1) =>
            prog' = <<processed', total>>]_vars
    /\ [](pc = "finished" => processed = total)
    /\ [][(pc' = "finished" /\ (pc # "finished" \/ run' # run)) =>
            prog' = <<1, 1>>]_vars
    /\ (pc = "processing") ~> (pc = "finished")

C12_Witness == pc = "finished" /\ failures > 0 /\ total > 1

\* C13: the end-to-end example: /h holds a.jpg, b.txt, c and an empty old/
C13_EndToEnd ==
    (/\ run = 1 /\ pc = "finished" /\ rtarget = PH
     /\ present = {1, 3, 4, 8} /\ dirsStart = BaseDirs \cup {POld}
     /\ moveFail = {} /\ unreadable = {}) =>
      /\ loc[1] = PH \o <<IMAGES, AJPG>>
      /\ loc[3] = PH \o <<DOCS, BTXT>>
      /\ loc[4] = PH \o <<NO_EXTENSION_FILES, CNAME>>
      /\ POld \notin dirs
      /\ processed = 3 /\ skipped = 0

C13_Witness ==
    /\ run = 1 /\ pc = "finished" /\ rtarget = PH
    /\ present = {1, 3, 4, 8} /\ dirsStart = BaseDirs \cup {POld}
    /\ moveFail = {} /\ unreadable = {}

\* C14: no file is lost or overwritten: files keep distinct paths, no file
\* ends up at a second path (a copy), moves of a run have distinct
\* destinations and never hit an existing path, and unclassified files stay
\* where they were.
C14_NoLoss ==
    run >= 1 =>
      /\ \A i \in present : loc[i] # <<>>
      /\ present \cap CopyIds = {}
      /\ \A i, j \in present : i # j => loc[i] # loc[j]
      /\ ~clobber
      /\ Cardinality(dests) = moved
      /\ \A i \in present \cap OrigIds :
           ClassifyKey(RunTable, ProcessedExtKey(Basename(locStart[i]))) = <<>>
             => loc[i] = locStart[i]

\* C15: no accepted run moves or deletes anything under a protected root.
C15_ProtectedUntouched ==
    run >= 1 =>
      LET Under(p) == \E c \in ForbiddenCandidates \cap dirsStart : IsPrefix(c, p)
      IN /\ \A i \in present : Under(locStart[i]) => loc[i] = locStart[i]
         /\ \A d \in dirsStart : Under(d) => d \in dirs

\* C16: the cleanup pass never deletes a directory the scanner prunes as
\* hidden (or one inside such a directory).
C16_HiddenDirsKept ==
    (run >= 1 /\ pc # "aborted") =>
      \A d \in dirsStart :
         (/\ IsPrefix(rtarget, d) /\ Len(d) > Len(rtarget)
          /\ \E k \in Len(rtarget)+1..Len(d) : IsSystemOrHidden(SubSeq(d, 1, k)))
         => d \in dirs

\* C17: after a finished run without creation or move failures, a second run
\* on the same root moves nothing and leaves every file where it was.
C17_Idempotent ==
    (/\ run = 2 /\ pc = "finished" /\ prevFailures = 0
     /\ prevDone) =>
      moved = 0 /\ loc = locStart

C17_Witness ==
    run = 2 /\ pc = "finished" /\ prevFailures = 0
    /\ prevDone
    /\ loc[2] = PH \o <<IMAGES, A1JPG>>

====
